---- MODULE Spec2Model ----
(***************************************************************************)
(* Proof-of-work ledger: blockchain.py (Transaction, Block, Blockchain,    *)
(* mine_block) and pow_parallel.py (worker_mine, mine_block_parallel,      *)
(* mine_blockchain_parallel).                                              *)
(*                                                                         *)
(* Strings of hex characters are sequences over HexDigits; digit 0 is the  *)
(* character '0'.  SHA-256 is replaced by a fixed deterministic mixing     *)
(* function onto HashLen digits: the code relies on it only as a           *)
(* deterministic function of the block string.                             *)
(***************************************************************************)
EXTENDS Integers, Sequences, FiniteSets, TLC

\* ---------------------------------------------------------------- bounds
\* length of a hex digest (64 for SHA-256)
HashLen == 2
\* largest number of blocks a chain grows to
MaxChainLen == 3
\* nonces are Python integers (unbounded); searches stop stepping at this cap
NonceCap == 4

\* attempts between two progress callbacks of mine_block (100000 in the code)
ProgressInterval == 2

\* attempts between two reads of the stop signal in worker_mine (10000 in the
\* code)
CheckInterval == 2
\* largest num_workers
MaxWorkers == 2

HexDigits == {0, 1}
Timestamps == {1, 2}
None == "None"

\* ------------------------------------------------------------ Transaction
\* A Transaction object is the tuple <<sender, recipient, amount, timestamp>>
\* of its attributes; its dict form is a record keyed by attribute name.
Transaction(sender, recipient, amount, timestamp) ==
    <<sender, recipient, amount, timestamp>>

Transaction_to_dict(tx) ==
    [sender |-> tx[1], recipient |-> tx[2], amount |-> tx[3], timestamp |-> tx[4]]

Transaction_from_dict(data) ==
    Transaction(data.sender, data.recipient, data.amount, data.timestamp)

\* ------------------------------------------------------------------ hash
\* json.dumps(list of dicts, sort_keys=True): the records in list order,
\* each written with its keys in alphabetical order (amount, recipient,
\* sender, timestamp)
JsonDumps(dicts) ==
    [k \in 1..(4 * Len(dicts)) |->
        LET d == dicts[((k - 1) \div 4) + 1]
            key == (k - 1) % 4
        IN  CASE key = 0 -> d.amount
              [] key = 1 -> d.recipient
              [] key = 2 -> d.sender
              [] OTHER   -> d.timestamp]

Modulus == Cardinality(HexDigits) ^ HashLen

\* hashlib.sha256(...): a deterministic mixing function of the whole string,
\* here of its first i characters
RECURSIVE Mix(_, _)
Mix(s, i) ==
    IF i = 0 THEN 11 ELSE (7 * Mix(s, i - 1) + 3 * s[i] + 5) % 251

\* .hexdigest(): HashLen hex characters, most significant first
HexDigest(n) ==
    [i \in 1..HashLen |->
        (n \div (Cardinality(HexDigits) ^ (HashLen - i))) % Cardinality(HexDigits)]

\* hashlib.sha256(block_string.encode()).hexdigest(); the string and its
\* mixed value are each computed once
Sha256Hex(s) ==
    CHOOSE digest \in
        { HexDigest(((v * v + 3 * v + 1) % 251) % Modulus) :
            v \in { Mix(str, Len(str)) : str \in {s} } } : TRUE

\* Block.calculate_hash on the fields of a block
calculate_hash(previous_hash, timestamp, nonce, transactions) ==
    LET transactions_str == JsonDumps([i \in 1..Len(transactions) |->
                                          Transaction_to_dict(transactions[i])])
        block_string == previous_hash \o <<timestamp, nonce>> \o transactions_str
    IN  Sha256Hex(block_string)

\* Block(previous_hash, transactions, timestamp, nonce): hash set by __init__
Block(previous_hash, transactions, timestamp, nonce) ==
    [previous_hash |-> previous_hash,
     timestamp     |-> timestamp,
     nonce         |-> nonce,
     transactions  |-> transactions,
     hash          |-> calculate_hash(previous_hash, timestamp, nonce, transactions)]

\* block.calculate_hash() of an existing block object
Block_calculate_hash(block) ==
    calculate_hash(block.previous_hash, block.timestamp, block.nonce,
                   block.transactions)

\* "0" * n (the empty string when n <= 0)
Zeros(n) == [i \in 1..n |-> 0]

\* str.startswith
StartsWith(s, prefix) ==
    /\ Len(prefix) <= Len(s)
    /\ \A i \in 1..Len(prefix) : s[i] = prefix[i]

\* ------------------------------------------------------------- variables
VARIABLES
    chain,      \* Blockchain.chain: the list of blocks
    cpc,        \* caller of the chain: "idle", "called" or "returned"
    call,       \* the call in progress: method, arguments and the chain it
                \* was made on; None between calls
    ret,        \* value the call returned, if one has
    mine_in,    \* arguments shared by the two mine_block calls
    mine,       \* the two mine_block calls: locals, result, and what each
                \* tested and reported to its callback
    par_in,     \* arguments of the mine_block_parallel call and its timestamp
    found_flag, \* manager.Value("i", 0): the shared stop signal
    result_queue,   \* manager.Queue(): reports put and not yet got
    workers,    \* worker_mine tasks: position, nonce, nonces_tested
    coord,      \* mine_block_parallel: position, found_block,
                \* total_nonces_tested, worker_stats, and the reports it got
    earlier     \* the flag, queue and worker tasks of the call before this
                \* one, which its workers still hold; Nothing on a first call

chainVars == <<chain, cpc, call, ret>>
seqVars == <<mine_in, mine>>
parVars == <<par_in, found_flag, result_queue, workers, coord, earlier>>
vars == <<chainVars, seqVars, parVars>>

\* an optional value: <<>> is Python's None, <<x>> is the value x
Nothing == <<>>
Some(x) == <<x>>

\* the parts of the program a specification leaves out stay as they are here
\* no Blockchain object is used
ChainIdle ==
    /\ chain = <<>>
    /\ cpc = "idle"
    /\ call = None
    /\ ret = Nothing

\* no mine_block call is made
SeqIdle ==
    /\ mine_in = Nothing
    /\ mine = Nothing

\* no mine_block_parallel call is made
ParIdle ==
    /\ par_in = Nothing
    /\ found_flag = 0
    /\ result_queue = <<>>
    /\ workers = <<>>
    /\ coord = Nothing
    /\ earlier = Nothing


\* ------------------------------------------------------------ Blockchain
ZeroHash == Zeros(HashLen)

\* transaction batches callers hand in; the first is the empty batch
T1 == Transaction(1, 2, 10, 1)
T2 == Transaction(2, 1, 5, 2)
TxBatches == {<<>>, <<T1>>, <<T1, T2>>}

\* difficulty arguments: 0 up to one more than a digest is long
Difficulties == 0..(HashLen + 1)

\* Blockchain.create_genesis_block with time.time() read as t1, then t2
create_genesis_block(t1, t2) ==
    LET genesis_tx == Transaction(0, 0, 0, t1)
    IN  Block(ZeroHash, <<genesis_tx>>, t2, 0)

\* Blockchain.get_latest_block
get_latest_block(c) == c[Len(c)]

\* validate_block without its last check (the transactions check)
validate_block_no_tx_check(c, block, difficulty) ==
    IF Len(c) > 0 /\ block.previous_hash # c[Len(c)].hash
    THEN FALSE
    ELSE IF Block_calculate_hash(block) # block.hash
    THEN FALSE
    ELSE StartsWith(block.hash, Zeros(difficulty))

\* Blockchain.validate_block: the checks in the order of the code, each an
\* early return of False
validate_block(c, block, difficulty) ==
    IF Len(c) > 0 /\ block.previous_hash # get_latest_block(c).hash
    THEN FALSE
    ELSE IF Block_calculate_hash(block) # block.hash
    THEN FALSE
    ELSE IF ~StartsWith(block.hash, Zeros(difficulty))
    THEN FALSE
    ELSE IF Len(block.transactions) = 0
    THEN FALSE
    ELSE TRUE

\* add_block that reports the failure but appends all the same
add_block_always_appends(c, block, difficulty) ==
    [ok |-> validate_block_no_tx_check(c, block, difficulty)
              /\ Len(block.transactions) > 0,
     chain |-> Append(c, block)]

\* add_block that inserts the block at the front of the list
add_block_prepends(c, block, difficulty) ==
    IF validate_block_no_tx_check(c, block, difficulty)
          /\ Len(block.transactions) > 0
    THEN [ok |-> TRUE, chain |-> <<block>> \o c]
    ELSE [ok |-> FALSE, chain |-> c]

\* Blockchain.add_block: the value returned and the list after the call
add_block(c, block, difficulty) ==
    IF ~validate_block(c, block, difficulty)
    THEN [ok |-> FALSE, chain |-> c]
    ELSE [ok |-> TRUE, chain |-> Append(c, block)]

\* candidate blocks a caller submits: built by Block(...), the hash attribute
\* either left as computed or overwritten
CandidateNonces == {0, 1, 2}
CandidateBlocks(c) ==
    { [Block(p, txs, 2, n) EXCEPT !.hash = IF keep THEN @ ELSE ZeroHash] :
        p \in (IF Len(c) > 0 THEN {get_latest_block(c).hash} ELSE {}) \cup {ZeroHash},
        txs \in TxBatches, n \in CandidateNonces, keep \in BOOLEAN }

InitChain ==
    /\ \E t1 \in Timestamps, t2 \in Timestamps :
          /\ t1 <= t2
          /\ chain = <<create_genesis_block(t1, t2)>>
    /\ cpc = "idle"
    /\ call = None
    /\ ret = Nothing
    /\ SeqIdle
    /\ ParIdle

\* a caller invokes chain.validate_block or chain.add_block
Call(op, block, difficulty) ==
    /\ cpc = "idle"
    /\ op = "add_block" => Len(chain) < MaxChainLen
    /\ cpc' = "called"
    /\ call' = [op |-> op, block |-> block, difficulty |-> difficulty,
                before |-> chain]
    /\ ret' = Nothing
    /\ UNCHANGED <<chain, seqVars, parVars>>

\* the body of validate_block runs and returns
ValidateBlock ==
    /\ cpc = "called"
    /\ call.op = "validate_block"
    /\ ret' = Some(validate_block(chain, call.block, call.difficulty))
    /\ cpc' = "returned"
    /\ UNCHANGED <<chain, call, seqVars, parVars>>

\* the body of add_block runs and returns
AddBlock ==
    /\ cpc = "called"
    /\ call.op = "add_block"
    /\ LET r == add_block(chain, call.block, call.difficulty)
       IN  /\ chain' = r.chain
           /\ ret' = Some(r.ok)
    /\ cpc' = "returned"
    /\ UNCHANGED <<call, seqVars, parVars>>

\* the caller drops the arguments and the result
Forget ==
    /\ cpc = "returned"
    /\ cpc' = "idle"
    /\ call' = None
    /\ ret' = Nothing
    /\ UNCHANGED <<chain, seqVars, parVars>>

\* Block.to_dict
Block_to_dict(block) ==
    [previous_hash |-> block.previous_hash,
     timestamp     |-> block.timestamp,
     nonce         |-> block.nonce,
     transactions  |-> [i \in 1..Len(block.transactions) |->
                          Transaction_to_dict(block.transactions[i])],
     hash          |-> block.hash]

\* Block.from_dict: the block is built (its hash computed), then its hash
\* attribute is overwritten by the stored one
Block_from_dict(data) ==
    LET transactions == [i \in 1..Len(data.transactions) |->
                            Transaction_from_dict(data.transactions[i])]
        block == Block(data.previous_hash, transactions, data.timestamp, data.nonce)
    IN  [block EXCEPT !.hash = data.hash]

\* Blockchain.to_dict
Blockchain_to_dict(c) ==
    [length |-> Len(c), blocks |-> [i \in 1..Len(c) |-> Block_to_dict(c[i])]]

\* Blockchain.from_dict: the chain of the new object
Blockchain_from_dict(data) ==
    [i \in 1..Len(data.blocks) |-> Block_from_dict(data.blocks[i])]

\* persisted chains handed to Blockchain.from_dict: one with no blocks, the
\* saved form of a fresh chain and of a fresh chain with one block appended,
\* and each of these with the stored hash of its last block altered
PersistedChains ==
    LET fresh == <<create_genesis_block(1, 2)>>
        grown == {add_block(fresh, b, 0).chain : b \in CandidateBlocks(fresh)}
        saved == {Blockchain_to_dict(c) : c \in {fresh} \cup grown}
    IN  {[length |-> 0, blocks |-> <<>>]} \cup saved \cup
        {[d EXCEPT !.blocks[d.length].hash = ZeroHash] : d \in saved}

NextChain ==
    \/ /\ cpc = "idle"
       /\ \E op \in {"validate_block", "add_block"},
             b \in CandidateBlocks(chain), d \in Difficulties : Call(op, b, d)
    \/ ValidateBlock
    \/ AddBlock
    \/ Forget

SpecChain == InitChain /\ [][NextChain]_vars

\* the chain object is built by Blockchain() or by Blockchain.from_dict(data)
InitChainLoad ==
    /\ \/ \E t1 \in Timestamps, t2 \in Timestamps :
             /\ t1 <= t2
             /\ chain = <<create_genesis_block(t1, t2)>>
       \/ \E data \in PersistedChains : chain = Blockchain_from_dict(data)
    /\ cpc = "idle"
    /\ call = None
    /\ ret = Nothing
    /\ SeqIdle
    /\ ParIdle

SpecChainLoad == InitChainLoad /\ [][NextChain]_vars

\* ------------------------------------------------------------ mine_block
Runs == {1, 2}

\* locals of a mine_block call after lines 192-195, with time.time() = timestamp
mine_enter(start_nonce, max_nonce, progress_callback, timestamp) ==
    [pc |-> "loop",
     max_nonce |-> max_nonce,
     progress_callback |-> progress_callback,
     timestamp |-> timestamp,
     nonce |-> start_nonce,
     nonces_tested |-> 0,
     block |-> Nothing,
     tested |-> {},
     calls |-> <<>>]

\* a loop whose bound is inclusive
mine_loop_condition_inclusive(st) ==
    IF st.max_nonce = Nothing THEN TRUE ELSE st.nonce <= st.max_nonce[1]

\* while max_nonce is None or nonce < max_nonce
mine_loop_condition(st) ==
    IF st.max_nonce = Nothing THEN TRUE ELSE st.nonce < st.max_nonce[1]

\* a loop body that goes on to the next nonce right after calling the callback
mine_body_callback_skips(in, st) ==
    LET block == Block(in.previous_hash, in.transactions, st.timestamp, st.nonce)
        n == st.nonces_tested + 1
        called == st.progress_callback # Nothing /\ n % ProgressInterval = 0
        st1 == [st EXCEPT !.nonces_tested = n,
                          !.tested = @ \cup {st.nonce},
                          !.calls = IF called
                                    THEN Append(@, <<st.nonce, block.hash>>)
                                    ELSE @]
    IN  IF ~called /\ StartsWith(block.hash, Zeros(in.difficulty))
        THEN [st1 EXCEPT !.pc = "done", !.block = Some(block)]
        ELSE [st1 EXCEPT !.nonce = @ + 1]

\* a loop body that steps the nonce by 2
mine_body_step_two(in, st) ==
    LET block == Block(in.previous_hash, in.transactions, st.timestamp, st.nonce)
        n == st.nonces_tested + 1
        st1 == [st EXCEPT !.nonces_tested = n, !.tested = @ \cup {st.nonce}]
    IN  IF StartsWith(block.hash, Zeros(in.difficulty))
        THEN [st1 EXCEPT !.pc = "done", !.block = Some(block)]
        ELSE [st1 EXCEPT !.nonce = @ + 2]

\* one pass through the loop body, lines 198-207: the block is built and
\* counted, the callback (which only observes) is called every
\* ProgressInterval attempts, the block is returned if its hash has the
\* prefix, and the nonce is stepped otherwise
mine_body(in, st) ==
    LET block == Block(in.previous_hash, in.transactions, st.timestamp, st.nonce)
        n == st.nonces_tested + 1
        called == st.progress_callback # Nothing /\ n % ProgressInterval = 0
        st1 == [st EXCEPT !.nonces_tested = n,
                          !.tested = @ \cup {st.nonce},
                          !.calls = IF called
                                    THEN Append(@, <<st.nonce, block.hash>>)
                                    ELSE @]
    IN  IF StartsWith(block.hash, Zeros(in.difficulty))
        THEN [st1 EXCEPT !.pc = "done", !.block = Some(block)]
        ELSE [st1 EXCEPT !.nonce = @ + 1]

\* arguments of mine_block
StartNonces == {0, 1, 2}
MaxNonces == {Nothing} \cup {Some(n) : n \in 0..(NonceCap + 1)}
ProgressCallbacks == {Nothing, Some("observer")}

InitSeq ==
    /\ \E txs \in TxBatches, d \in Difficulties, s \in StartNonces :
          mine_in = [previous_hash |-> ZeroHash, transactions |-> txs,
                     difficulty |-> d, start_nonce |-> s]
    /\ mine = [r \in Runs |-> [pc |-> "idle"]]
    /\ ChainIdle
    /\ ParIdle

\* mine_block is called: run 2 once run 1 has returned
MineCall(r, max_nonce, progress_callback, timestamp) ==
    /\ mine[r].pc = "idle"
    /\ r = 2 => mine[1].pc = "done"
    /\ mine' = [mine EXCEPT ![r] = mine_enter(mine_in.start_nonce, max_nonce,
                                               progress_callback, timestamp)]
    /\ UNCHANGED <<mine_in, chainVars, parVars>>

\* the loop condition is false: return None, nonces_tested (line 209)
MineExhausted(r) ==
    /\ mine[r].pc = "loop"
    /\ ~mine_loop_condition(mine[r])
    /\ mine' = [mine EXCEPT ![r].pc = "done", ![r].block = Nothing]
    /\ UNCHANGED <<mine_in, chainVars, parVars>>

\* the loop condition is true: one pass through the loop body
MineIterate(r) ==
    /\ mine[r].pc = "loop"
    /\ mine_loop_condition(mine[r])
    /\ mine[r].nonce <= NonceCap
    /\ mine' = [mine EXCEPT ![r] = mine_body(mine_in, @)]
    /\ UNCHANGED <<mine_in, chainVars, parVars>>

MineStep(r) == MineExhausted(r) \/ MineIterate(r)

NextSeq ==
    \/ \E r \in Runs, mx \in MaxNonces, cb \in ProgressCallbacks,
          ts \in Timestamps : MineCall(r, mx, cb, ts)
    \/ \E r \in Runs : MineExhausted(r)
    \/ \E r \in Runs : MineIterate(r)

SpecSeq == InitSeq /\ [][NextSeq]_vars

\* a call that has started takes its next step
SpecSeqFair == SpecSeq /\ \A r \in Runs : WF_vars(MineStep(r))

\* ---------------------------------------------------------- pow_parallel
\* worker ids of the call: range(num_workers)
WorkerIds == 0..(par_in.num_workers - 1)

\* a worker whose first nonce is one step past its start nonce
worker_enter_skips_first(worker_id) ==
    [pc |-> "loop", nonce |-> worker_id + par_in.num_workers, nonces_tested |-> 0,
     result |-> Nothing, tested |-> <<>>, after_flag |-> 0]

\* a worker that starts every search at nonce 0
worker_enter_from_zero(worker_id) ==
    [pc |-> "loop", nonce |-> 0, nonces_tested |-> 0, result |-> Nothing,
     tested |-> <<>>, after_flag |-> 0]

\* worker_mine lines 27-31, called with start_nonce = worker_id.  tested is
\* the history of the blocks the worker has hashed, after_flag the number of
\* them it hashed while found_flag was already 1.
worker_enter(worker_id) ==
    [pc |-> "loop", nonce |-> worker_id, nonces_tested |-> 0, result |-> Nothing,
     tested |-> <<>>, after_flag |-> 0]

\* the report of a worker that found a nonce, lines 40-53
found_result(worker_id, block, nonces_tested) ==
    [worker_id |-> worker_id,
     found |-> TRUE,
     nonce |-> block.nonce,
     hash |-> block.hash,
     block_data |-> Block_to_dict(block),
     nonces_tested |-> nonces_tested]

\* the report of a worker that saw the stop signal, lines 60-64
stopped_result(worker_id, nonces_tested) ==
    [worker_id |-> worker_id, found |-> FALSE, nonces_tested |-> nonces_tested]

\* the worker after hashing block as its next attempt: lines 35-36
worker_attempt(w, block, flag) ==
    [w EXCEPT !.nonces_tested = @ + 1,
              !.tested = Append(@, block),
              !.after_flag = @ + flag]

\* a worker that looks at the flag only at every (check_interval + 1)-th attempt
worker_iteration_checks_late(in, worker_id, w, flag) ==
    LET transactions == [i \in 1..Len(in.transactions_data) |->
                            Transaction_from_dict(in.transactions_data[i])]
        block == Block(in.previous_hash, transactions, in.timestamp, w.nonce)
        w1 == worker_attempt(w, block, flag)
        n == w1.nonces_tested
    IN  IF StartsWith(block.hash, Zeros(in.difficulty))
        THEN [flag |-> 1,
              w |-> [w1 EXCEPT !.pc = "put",
                               !.result = Some(found_result(worker_id, block, n))]]
        ELSE IF n % (CheckInterval + 1) = 0 /\ flag = 1
        THEN [flag |-> flag,
              w |-> [w1 EXCEPT !.pc = "put",
                               !.result = Some(stopped_result(worker_id, n))]]
        ELSE [flag |-> flag,
              w |-> [w1 EXCEPT !.nonce = @ + in.num_workers]]

\* a worker that clears the flag when it stops on it
worker_iteration_clears_flag(in, worker_id, w, flag) ==
    LET transactions == [i \in 1..Len(in.transactions_data) |->
                            Transaction_from_dict(in.transactions_data[i])]
        block == Block(in.previous_hash, transactions, in.timestamp, w.nonce)
        w1 == worker_attempt(w, block, flag)
        n == w1.nonces_tested
    IN  IF StartsWith(block.hash, Zeros(in.difficulty))
        THEN [flag |-> 1,
              w |-> [w1 EXCEPT !.pc = "put",
                               !.result = Some(found_result(worker_id, block, n))]]
        ELSE IF n % CheckInterval = 0 /\ flag = 1
        THEN [flag |-> 0,
              w |-> [w1 EXCEPT !.pc = "put",
                               !.result = Some(stopped_result(worker_id, n))]]
        ELSE [flag |-> flag,
              w |-> [w1 EXCEPT !.nonce = @ + in.num_workers]]

\* a worker that reports a nonce it found without setting the flag
worker_iteration_forgets_flag(in, worker_id, w, flag) ==
    LET transactions == [i \in 1..Len(in.transactions_data) |->
                            Transaction_from_dict(in.transactions_data[i])]
        block == Block(in.previous_hash, transactions, in.timestamp, w.nonce)
        w1 == worker_attempt(w, block, flag)
        n == w1.nonces_tested
    IN  IF StartsWith(block.hash, Zeros(in.difficulty))
        THEN [flag |-> flag,
              w |-> [w1 EXCEPT !.pc = "put",
                               !.result = Some(found_result(worker_id, block, n))]]
        ELSE IF n % CheckInterval = 0 /\ flag = 1
        THEN [flag |-> flag,
              w |-> [w1 EXCEPT !.pc = "put",
                               !.result = Some(stopped_result(worker_id, n))]]
        ELSE [flag |-> flag,
              w |-> [w1 EXCEPT !.nonce = @ + in.num_workers]]

\* a worker that counts an attempt only after the test of its hash has failed
worker_iteration_counts_after_test(in, worker_id, w, flag) ==
    LET transactions == [i \in 1..Len(in.transactions_data) |->
                            Transaction_from_dict(in.transactions_data[i])]
        block == Block(in.previous_hash, transactions, in.timestamp, w.nonce)
        w1 == worker_attempt(w, block, flag)
        n == w1.nonces_tested
    IN  IF StartsWith(block.hash, Zeros(in.difficulty))
        THEN [flag |-> 1,
              w |-> [w1 EXCEPT !.pc = "put",
                               !.result = Some(found_result(worker_id, block, n - 1))]]
        ELSE IF n % CheckInterval = 0 /\ flag = 1
        THEN [flag |-> flag,
              w |-> [w1 EXCEPT !.pc = "put",
                               !.result = Some(stopped_result(worker_id, n))]]
        ELSE [flag |-> flag,
              w |-> [w1 EXCEPT !.nonce = @ + in.num_workers]]

\* one pass through the loop of worker_mine, lines 35-68, up to its write or
\* read of found_flag: the worker and the flag afterwards.  A worker that has
\* built its report is at "put".
worker_iteration(in, worker_id, w, flag) ==
    LET transactions == [i \in 1..Len(in.transactions_data) |->
                            Transaction_from_dict(in.transactions_data[i])]
        block == Block(in.previous_hash, transactions, in.timestamp, w.nonce)
        w1 == worker_attempt(w, block, flag)
        n == w1.nonces_tested
    IN  IF StartsWith(block.hash, Zeros(in.difficulty))
        THEN [flag |-> 1,
              w |-> [w1 EXCEPT !.pc = "put",
                               !.result = Some(found_result(worker_id, block, n))]]
        ELSE IF n % CheckInterval = 0 /\ flag = 1
        THEN [flag |-> flag,
              w |-> [w1 EXCEPT !.pc = "put",
                               !.result = Some(stopped_result(worker_id, n))]]
        ELSE [flag |-> flag,
              w |-> [w1 EXCEPT !.nonce = @ + in.num_workers]]

\* mine_block_parallel lines 97-99
coord_enter(num_workers) ==
    [pc |-> "await",
     found_block |-> Nothing,
     total_nonces_tested |-> 0,
     worker_stats |-> [i \in 0..(num_workers - 1) |-> 0],
     drain_i |-> 0,
     received |-> <<>>]

\* a coordinator that adds a report to the breakdown but not to the total
coord_count_skips_total(c, result) ==
    [c EXCEPT !.worker_stats[result.worker_id] = @ + result.nonces_tested,
              !.received = Append(@, result)]

\* lines 104-108 and 130-134: a report is added to the statistics
coord_count(c, result) ==
    [c EXCEPT !.worker_stats[result.worker_id] = @ + result.nonces_tested,
              !.total_nonces_tested = @ + result.nonces_tested,
              !.received = Append(@, result)]

\* a reconstruction that stamps the block anew instead of using the report's
\* timestamp
reconstruct_restamps(block_data) ==
    LET block_transactions == [i \in 1..Len(block_data.transactions) |->
                                  Transaction_from_dict(block_data.transactions[i])]
        found_block == Block(block_data.previous_hash, block_transactions,
                             block_data.timestamp + 1, block_data.nonce)
    IN  [found_block EXCEPT !.hash = block_data.hash]

\* lines 111-122: the block rebuilt from a report
reconstruct(block_data) ==
    LET block_transactions == [i \in 1..Len(block_data.transactions) |->
                                  Transaction_from_dict(block_data.transactions[i])]
        found_block == Block(block_data.previous_hash, block_transactions,
                             block_data.timestamp, block_data.nonce)
    IN  [found_block EXCEPT !.hash = block_data.hash]

\* the for loop of line 127 has passes left
drain_continues(c, num_workers) == c.drain_i < num_workers - 1

\* an await loop that any report ends
coord_await_get_any_report_ends(c, result, num_workers) ==
    LET c1 == coord_count(c, result)
    IN  [c1 EXCEPT !.found_block = IF result.found
                                   THEN Some(reconstruct(result.block_data))
                                   ELSE Nothing,
                   !.pc = IF drain_continues(c1, num_workers)
                          THEN "drain" ELSE "returned"]

\* the await loop, lines 101-124, when get returns a report
coord_await_get(c, result, num_workers) ==
    LET c1 == coord_count(c, result)
    IN  IF result.found
        THEN [c1 EXCEPT !.found_block = Some(reconstruct(result.block_data)),
                        !.pc = IF drain_continues(c1, num_workers)
                               THEN "drain" ELSE "returned"]
        ELSE c1

\* a drain loop that leaves a later found report out of the statistics
coord_drain_get_skips_found(c, result, num_workers) ==
    LET c1 == IF result.found
              THEN [c EXCEPT !.drain_i = @ + 1, !.received = Append(@, result)]
              ELSE [coord_count(c, result) EXCEPT !.drain_i = @ + 1]
    IN  [c1 EXCEPT !.pc = IF drain_continues(c1, num_workers)
                          THEN "drain" ELSE "returned"]

\* a drain loop in which a later found report replaces the block
coord_drain_get_last_wins(c, result, num_workers) ==
    LET c1 == [coord_count(c, result) EXCEPT !.drain_i = @ + 1]
        c2 == IF result.found
              THEN [c1 EXCEPT !.found_block = Some(reconstruct(result.block_data))]
              ELSE c1
    IN  [c2 EXCEPT !.pc = IF drain_continues(c2, num_workers)
                          THEN "drain" ELSE "returned"]

\* one pass of the drain loop, lines 127-134, when get returns a report
coord_drain_get(c, result, num_workers) ==
    LET c1 == [coord_count(c, result) EXCEPT !.drain_i = @ + 1]
    IN  [c1 EXCEPT !.pc = IF drain_continues(c1, num_workers)
                          THEN "drain" ELSE "returned"]

\* a drain loop that tries again after a timeout
coord_drain_timeout_retries(c) == c

\* one pass of the drain loop when get times out, lines 135-136: break
coord_drain_timeout(c) ==
    [c EXCEPT !.drain_i = @ + 1, !.pc = "returned"]


\* mine_blockchain_parallel lines 143-160 and mine_block_parallel lines 72-99:
\* a fresh chain, the call on its tip hash, the workers submitted
InitPar ==
    /\ \E txs \in TxBatches, d \in Difficulties, n \in 1..MaxWorkers,
          ts \in Timestamps :
          /\ chain = <<create_genesis_block(1, 2)>>
          /\ par_in = [previous_hash |-> create_genesis_block(1, 2).hash,
                       transactions |-> txs,
                       transactions_data |->
                           [i \in 1..Len(txs) |-> Transaction_to_dict(txs[i])],
                       difficulty |-> d,
                       num_workers |-> n,
                       timestamp |-> ts]
          /\ workers = [id \in 0..(n - 1) |-> worker_enter(id)]
          /\ coord = coord_enter(n)
    /\ found_flag = 0
    /\ earlier = Nothing
    /\ result_queue = <<>>
    /\ cpc = "idle"
    /\ call = None
    /\ ret = Nothing
    /\ SeqIdle

\* a worker hashes its next nonce, then sets or reads the flag.  The search of
\* a worker is followed up to NonceCap while the flag is clear; once the flag
\* is set the worker is followed to its next check point.
WorkerIterate(id) ==
    /\ workers[id].pc = "loop"
    /\ (workers[id].nonce <= NonceCap \/ found_flag = 1)
    /\ LET r == worker_iteration(par_in, id, workers[id], found_flag)
       IN  /\ workers' = [workers EXCEPT ![id] = r.w]
           /\ found_flag' = r.flag
    /\ UNCHANGED <<earlier, par_in, result_queue, coord, chainVars, seqVars>>

\* a worker whose report is enqueued twice
WorkerPutTwice(id) ==
    /\ workers[id].pc = "put"
    /\ result_queue' = result_queue \o <<workers[id].result[1], workers[id].result[1]>>
    /\ workers' = [workers EXCEPT ![id].pc = "done"]
    /\ UNCHANGED <<earlier, par_in, found_flag, coord, chainVars, seqVars>>

\* result_queue.put(result); return result (lines 55-57, 65-67)
WorkerPut(id) ==
    /\ workers[id].pc = "put"
    /\ result_queue' = Append(result_queue, workers[id].result[1])
    /\ workers' = [workers EXCEPT ![id].pc = "done"]
    /\ UNCHANGED <<earlier, par_in, found_flag, coord, chainVars, seqVars>>

\* a worker process dies before it has put its report
WorkerCrash(id) ==
    /\ workers[id].pc \in {"loop", "put"}
    /\ workers' = [workers EXCEPT ![id].pc = "crashed"]
    /\ UNCHANGED <<earlier, par_in, found_flag, result_queue, coord, chainVars, seqVars>>

\* result_queue.get(timeout=0.1) returns a report (lines 103-124)
CoordAwaitGet ==
    /\ coord.pc = "await"
    /\ result_queue # <<>>
    /\ coord' = coord_await_get(coord, Head(result_queue), par_in.num_workers)
    /\ result_queue' = Tail(result_queue)
    /\ UNCHANGED <<earlier, par_in, found_flag, workers, chainVars, seqVars>>

\* result_queue.get(timeout=0.1) times out: queue.Empty is raised (line 103)
CoordAwaitTimeout ==
    /\ coord.pc = "await"
    /\ result_queue = <<>>
    /\ coord' = [coord EXCEPT !.pc = "except"]
    /\ UNCHANGED <<earlier, par_in, found_flag, result_queue, workers, chainVars, seqVars>>

\* except: pass, and the while condition of line 101 holds again (lines 125-126)
CoordAwaitPass ==
    /\ coord.pc = "except"
    /\ coord' = [coord EXCEPT !.pc = "await"]
    /\ UNCHANGED <<earlier, par_in, found_flag, result_queue, workers, chainVars, seqVars>>

\* result_queue.get(timeout=1.0) returns a report (lines 129-134)
CoordDrainGet ==
    /\ coord.pc = "drain"
    /\ result_queue # <<>>
    /\ coord' = coord_drain_get(coord, Head(result_queue), par_in.num_workers)
    /\ result_queue' = Tail(result_queue)
    /\ UNCHANGED <<earlier, par_in, found_flag, workers, chainVars, seqVars>>

\* result_queue.get(timeout=1.0) times out: except: break (lines 135-136)
CoordDrainTimeout ==
    /\ coord.pc = "drain"
    /\ result_queue = <<>>
    /\ coord' = coord_drain_timeout(coord)
    /\ UNCHANGED <<earlier, par_in, found_flag, result_queue, workers, chainVars, seqVars>>

\* mine_blockchain_parallel line 165: blockchain.add_block(block, difficulty)
ParAddBlock ==
    /\ coord.pc = "returned"
    /\ LET r == add_block(chain, coord.found_block[1], par_in.difficulty)
       IN  /\ chain' = r.chain
           /\ ret' = Some(r.ok)
    /\ coord' = [coord EXCEPT !.pc = "added"]
    /\ UNCHANGED <<earlier, par_in, found_flag, result_queue, workers, cpc, call, seqVars>>

\* a step of the worker process id, when the call has such a worker
WorkerStep(id) ==
    /\ id \in WorkerIds
    /\ (WorkerIterate(id) \/ WorkerPut(id))

CoordStep ==
    CoordAwaitGet \/ CoordAwaitTimeout \/ CoordAwaitPass \/ CoordDrainGet
        \/ CoordDrainTimeout \/ ParAddBlock

NextPar ==
    \/ \E id \in WorkerIds : WorkerIterate(id)
    \/ \E id \in WorkerIds : WorkerPut(id)
    \/ \E id \in WorkerIds : WorkerCrash(id)
    \/ CoordAwaitGet
    \/ CoordAwaitTimeout
    \/ CoordAwaitPass
    \/ CoordDrainGet
    \/ CoordDrainTimeout
    \/ ParAddBlock

SpecPar == InitPar /\ [][NextPar]_vars

\* the steps of a call in which no worker process dies
NextParLive ==
    \/ \E id \in WorkerIds : WorkerIterate(id)
    \/ \E id \in WorkerIds : WorkerPut(id)
    \/ CoordAwaitGet
    \/ CoordAwaitTimeout
    \/ CoordAwaitPass
    \/ CoordDrainGet
    \/ CoordDrainTimeout
    \/ ParAddBlock

\* a step of some worker process of the pool
PoolStep == \E id \in WorkerIds : WorkerStep(id)

\* no worker process dies, the pool keeps running the workers that can run
\* and the coordinator keeps taking its steps
SpecParLive ==
    /\ InitPar
    /\ [][NextParLive]_vars
    /\ WF_vars(PoolStep)
    /\ WF_vars(CoordStep)

\* the coordinator keeps taking its steps, whatever the workers do
SpecParCoordFair == SpecPar /\ WF_vars(CoordStep)

\* every live worker keeps running and the coordinator keeps polling; no
\* fairness for a crash
SpecParFair ==
    /\ SpecPar
    /\ \A id \in 0..(MaxWorkers - 1) : WF_vars(WorkerStep(id))
    /\ WF_vars(CoordStep)


\* mine_blockchain_parallel lines 151-160, second pass of its loop: the next
\* mine_block_parallel call on the same pool, with the same difficulty and
\* num_workers, on the tip of the chain.  Lines 75-77 create a new manager,
\* flag and queue; the tasks of the call before keep the ones they were given.
NextCall(txs, ts) ==
    /\ coord.pc = "added"
    /\ earlier = Nothing
    /\ earlier' = Some([par_in |-> par_in,
                        found_flag |-> found_flag,
                        result_queue |-> result_queue,
                        workers |-> workers,
                        late |-> 0])
    /\ par_in' = [par_in EXCEPT
                     !.previous_hash = get_latest_block(chain).hash,
                     !.transactions = txs,
                     !.transactions_data =
                         [i \in 1..Len(txs) |-> Transaction_to_dict(txs[i])],
                     !.timestamp = ts]
    /\ found_flag' = 0
    /\ result_queue' = <<>>
    /\ workers' = [id \in WorkerIds |-> worker_enter(id)]
    /\ coord' = coord_enter(par_in.num_workers)
    /\ UNCHANGED <<chainVars, seqVars>>

\* a worker task of the call before hashes its next nonce, then sets or reads
\* the flag it was given
EarlierWorkerIterate(id) ==
    /\ earlier # Nothing
    /\ earlier[1].workers[id].pc = "loop"
    /\ (earlier[1].workers[id].nonce <= NonceCap \/ earlier[1].found_flag = 1)
    /\ LET r == worker_iteration(earlier[1].par_in, id, earlier[1].workers[id],
                                 earlier[1].found_flag)
       IN  earlier' = Some([earlier[1] EXCEPT !.workers[id] = r.w,
                                              !.found_flag = r.flag])
    /\ UNCHANGED <<par_in, found_flag, result_queue, workers, coord,
                   chainVars, seqVars>>

\* a worker task of the call before that puts its report into the queue of
\* the current call
EarlierWorkerPutShared(id) ==
    /\ earlier # Nothing
    /\ earlier[1].workers[id].pc = "put"
    /\ result_queue' = Append(result_queue, earlier[1].workers[id].result[1])
    /\ earlier' = Some([earlier[1] EXCEPT !.workers[id].pc = "done",
                                          !.late = @ + 1])
    /\ UNCHANGED <<par_in, found_flag, workers, coord, chainVars, seqVars>>

\* a worker task of the call before puts its report into the queue it was
\* given (lines 55, 65); late counts the reports put after the next call began
EarlierWorkerPut(id) ==
    /\ earlier # Nothing
    /\ earlier[1].workers[id].pc = "put"
    /\ earlier' = Some([earlier[1] EXCEPT
                           !.result_queue = Append(@, earlier[1].workers[id].result[1]),
                           !.workers[id].pc = "done",
                           !.late = @ + 1])
    /\ UNCHANGED <<par_in, found_flag, result_queue, workers, coord,
                   chainVars, seqVars>>

\* two successive calls in which no worker process dies; every batch has
\* txs_per_block transactions (line 153) and the clock does not go back
NextParCalls ==
    \/ \E id \in WorkerIds : WorkerIterate(id)
    \/ \E id \in WorkerIds : WorkerPut(id)
    \/ CoordAwaitGet
    \/ CoordAwaitTimeout
    \/ CoordAwaitPass
    \/ CoordDrainGet
    \/ CoordDrainTimeout
    \/ ParAddBlock
    \/ /\ coord.pc = "added"
       /\ \E txs \in TxBatches, ts \in Timestamps :
             /\ Len(txs) = Len(par_in.transactions)
             /\ ts >= par_in.timestamp
             /\ NextCall(txs, ts)
    \/ \E id \in WorkerIds : EarlierWorkerIterate(id)
    \/ \E id \in WorkerIds : EarlierWorkerPut(id)

\* mine_blockchain_parallel lines 143-160 for a run of two blocks by two
\* workers, one transaction per block
InitParCalls ==
    /\ \E d \in Difficulties, ts \in Timestamps :
          /\ chain = <<create_genesis_block(1, 2)>>
          /\ par_in = [previous_hash |-> create_genesis_block(1, 2).hash,
                       transactions |-> <<T1>>,
                       transactions_data |-> <<Transaction_to_dict(T1)>>,
                       difficulty |-> d,
                       num_workers |-> Cardinality({0, 1}),
                       timestamp |-> ts]
          /\ workers = [id \in {0, 1} |-> worker_enter(id)]
          /\ coord = coord_enter(Cardinality({0, 1}))
    /\ earlier = Nothing
    /\ found_flag = 0
    /\ result_queue = <<>>
    /\ cpc = "idle"
    /\ call = None
    /\ ret = Nothing
    /\ SeqIdle

SpecParCalls == InitParCalls /\ [][NextParCalls]_vars


\* ================================================================ claims

\* the four conditions of validation, stated on the candidate and the chain
LinkedToTip(c, block) ==
    Len(c) > 0 => block.previous_hash = c[Len(c)].hash

DigestMatches(block) ==
    block.hash = calculate_hash(block.previous_hash, block.timestamp,
                                block.nonce, block.transactions)

MeetsDifficulty(h, difficulty) ==
    /\ difficulty <= Len(h)
    /\ \A i \in 1..difficulty : h[i] = 0

HasTransactions(block) == block.transactions # <<>>

\* C1: validate_block(candidate, difficulty) returns True if and only if the
\* candidate's previous_hash is the hash of the tip (of a chain that has
\* one), its hash is the digest of its fields, its hash begins with
\* `difficulty` '0' characters and it has at least one transaction.
C1_ValidateIffFourConditions ==
    (cpc = "returned" /\ call.op = "validate_block") =>
        (ret = Some(TRUE) <=>
            /\ LinkedToTip(call.before, call.block)
            /\ DigestMatches(call.block)
            /\ MeetsDifficulty(call.block.hash, call.difficulty)
            /\ HasTransactions(call.block))

\* a candidate that meets a difficulty of at least 1, carries its own digest
\* and has transactions, rejected for its previous_hash alone
C1_Witness ==
    /\ cpc = "returned" /\ call.op = "validate_block"
    /\ ret = Some(FALSE)
    /\ Len(call.before) > 0
    /\ ~LinkedToTip(call.before, call.block)
    /\ DigestMatches(call.block)
    /\ call.difficulty >= 1
    /\ MeetsDifficulty(call.block.hash, call.difficulty)
    /\ HasTransactions(call.block)

\* C2: add_block is validate-then-insert: a candidate that fails validation
\* is reported False and leaves the list as it was; one that passes is
\* reported True and the list is the old one with the candidate at the end.
C2_AddBlockValidateThenInsert ==
    (cpc = "returned" /\ call.op = "add_block") =>
        IF validate_block(call.before, call.block, call.difficulty)
        THEN ret = Some(TRUE) /\ chain = call.before \o <<call.block>>
        ELSE ret = Some(FALSE) /\ chain = call.before

\* a candidate appended to a chain that already held two blocks
C2_Witness ==
    /\ cpc = "returned" /\ call.op = "add_block"
    /\ ret = Some(TRUE)
    /\ Len(call.before) = 2
    /\ chain = call.before \o <<call.block>>

ChainIsLinkedLog ==
    /\ Len(chain) >= 1
    /\ chain[1].previous_hash = [i \in 1..HashLen |-> 0]
    /\ chain[1].nonce = 0
    /\ \A i \in 2..Len(chain) : chain[i].previous_hash = chain[i - 1].hash

ChainOnlyGrows ==
    /\ Len(chain') >= Len(chain)
    /\ \A i \in 1..Len(chain) : chain'[i] = chain[i]

\* C3: after Blockchain() and any add_block calls the chain is a non-empty
\* linked log whose first block is the genesis block (previous_hash all '0',
\* nonce 0); no call removes, reorders or replaces a block already in it.
C3_AppendOnlyLinkedLog ==
    /\ []ChainIsLinkedLog
    /\ [][ChainOnlyGrows]_vars

\* a rejected add_block on a chain that has grown past its genesis block
C3_Witness ==
    /\ cpc = "returned" /\ call.op = "add_block"
    /\ ret = Some(FALSE)
    /\ Len(chain) >= 2
    /\ ~LinkedToTip(chain, call.block)

\* the digest of the block mine_block builds for nonce n has the prefix
NonceSatisfies(timestamp, n) ==
    MeetsDifficulty(calculate_hash(mine_in.previous_hash, timestamp, n,
                                   mine_in.transactions),
                    mine_in.difficulty)

MineFound(r) == mine[r].pc = "done" /\ mine[r].block # Nothing
MineFailed(r) == mine[r].pc = "done" /\ mine[r].block = Nothing

\* C8: when mine_block returns a block, its nonce is the smallest nonce >=
\* start_nonce whose digest has the difficulty prefix; with difficulty 0 and
\* no upper bound, or one above start_nonce, it returns the block of
\* start_nonce after testing exactly one candidate.
C8_SmallestSatisfyingNonce ==
    \A r \in Runs :
        /\ MineFound(r) =>
              LET b == mine[r].block[1]
              IN  /\ b = Block(mine_in.previous_hash, mine_in.transactions,
                               mine[r].timestamp, b.nonce)
                  /\ b.nonce >= mine_in.start_nonce
                  /\ NonceSatisfies(mine[r].timestamp, b.nonce)
                  /\ \A n \in mine_in.start_nonce..(b.nonce - 1) :
                        ~NonceSatisfies(mine[r].timestamp, n)
        /\ (mine[r].pc = "done" /\ mine_in.difficulty = 0
              /\ (IF mine[r].max_nonce = Nothing THEN TRUE
                  ELSE mine[r].max_nonce[1] > mine_in.start_nonce)) =>
              /\ mine[r].block # Nothing
              /\ mine[r].block[1].nonce = mine_in.start_nonce
              /\ mine[r].nonces_tested = 1

\* a search that returned a nonce at least two above start_nonce
C8_Witness ==
    \E r \in Runs :
        /\ MineFound(r)
        /\ mine_in.difficulty >= 1
        /\ mine[r].block[1].nonce >= mine_in.start_nonce + 2

C9_Safety ==
    \A r \in Runs :
        (mine[r].pc \in {"loop", "done"} /\ mine[r].max_nonce # Nothing) =>
            LET mx == mine[r].max_nonce[1]
                none == \A n \in mine_in.start_nonce..(mx - 1) :
                            ~NonceSatisfies(mine[r].timestamp, n)
            IN  /\ \A n \in mine[r].tested : n < mx
                /\ mine[r].pc = "done" =>
                      /\ mine[r].block = Nothing <=> none
                      /\ mine[r].block = Nothing =>
                            mine[r].nonces_tested =
                                IF mx > mine_in.start_nonce
                                THEN mx - mine_in.start_nonce ELSE 0

\* C9: with a finite max_nonce the search returns; when no nonce in
\* [start_nonce, max_nonce) has the prefix it returns no block and
\* nonces_tested = max_nonce - start_nonce (0 when max_nonce <= start_nonce);
\* it never tests a nonce >= max_nonce.
C9_BoundedSearchExhausts ==
    /\ []C9_Safety
    /\ \A r \in Runs :
          (mine[r].pc = "loop" /\ mine[r].max_nonce # Nothing)
              ~> (mine[r].pc = "done")

\* a bounded search that tested at least two nonces and returned no block
C9_Witness ==
    \E r \in Runs :
        /\ MineFailed(r)
        /\ mine[r].max_nonce # Nothing
        /\ mine_in.difficulty <= HashLen
        /\ mine[r].nonces_tested >= 2
        /\ mine[r].nonces_tested = mine[r].max_nonce[1] - mine_in.start_nonce

\* C10: two mine_block runs on the same previous_hash, transactions,
\* difficulty and start_nonce that read the same timestamp return the same
\* nonce when both return a block, and the same outcome and count when their
\* max_nonce is the same too, whatever their progress callbacks are.
C10_SameInputsSameNonce ==
    (mine[1].pc = "done" /\ mine[2].pc = "done"
        /\ mine[1].timestamp = mine[2].timestamp) =>
        /\ (mine[1].block # Nothing /\ mine[2].block # Nothing) =>
              mine[1].block[1].nonce = mine[2].block[1].nonce
        /\ mine[1].max_nonce = mine[2].max_nonce =>
              /\ mine[1].block = mine[2].block
              /\ mine[1].nonces_tested = mine[2].nonces_tested

\* two runs, one without a callback and one whose callback was called, that
\* returned a nonce above start_nonce
C10_Witness ==
    /\ mine[1].pc = "done" /\ mine[2].pc = "done"
    /\ mine[1].timestamp = mine[2].timestamp
    /\ mine[1].progress_callback = Nothing
    /\ mine[2].progress_callback # Nothing
    /\ mine[2].calls # <<>>
    /\ mine[1].block # Nothing /\ mine[2].block # Nothing
    /\ mine[2].block[1].nonce > mine_in.start_nonce

\* the positions, in the order of arrival, of the found:true reports the
\* coordinator has dequeued
FoundReports == { i \in 1..Len(coord.received) : coord.received[i].found }

FirstFoundReport ==
    coord.received[CHOOSE i \in FoundReports : \A j \in FoundReports : i <= j]

Awaiting == coord.pc \in {"await", "except"}

Returned == coord.pc \in {"returned", "added"}

\* C4: mine_block_parallel leaves its await loop with exactly one block, the
\* one rebuilt from the first found:true report it dequeued; found:true
\* reports dequeued afterwards do not replace it, and while no found:true
\* report has been dequeued there is no block and the call has not returned.
C4_FirstFoundReportWins ==
    IF Awaiting
    THEN coord.found_block = Nothing /\ FoundReports = {}
    ELSE /\ FoundReports # {}
         /\ coord.found_block = Some(reconstruct(FirstFoundReport.block_data))

\* the call has returned after dequeuing found:true reports of two workers
\* that carry different blocks
C4_Witness ==
    /\ Returned
    /\ \E i \in FoundReports, j \in FoundReports :
          /\ i < j
          /\ coord.received[i].block_data # coord.received[j].block_data

\* C5: the block of mine_block_parallel has the caller's previous_hash and
\* transactions and the call's one timestamp, its hash is the digest of its
\* fields and starts with difficulty zeros; with a non-empty batch
\* validate_block accepts it on the chain whose tip hash is previous_hash, and
\* add_block appends it.
C5_ReturnedBlockIsValid ==
    coord.found_block # Nothing =>
        LET block == coord.found_block[1]
        IN  /\ block.previous_hash = par_in.previous_hash
            /\ block.transactions = par_in.transactions
            /\ block.timestamp = par_in.timestamp
            /\ DigestMatches(block)
            /\ MeetsDifficulty(block.hash, par_in.difficulty)
            /\ (HasTransactions(block) /\ coord.pc # "added") =>
                   /\ get_latest_block(chain).hash = par_in.previous_hash
                   /\ validate_block(chain, block, par_in.difficulty)
            /\ (HasTransactions(block) /\ coord.pc = "added") =>
                   /\ ret = Some(TRUE)
                   /\ chain[Len(chain)] = block
                   /\ Len(chain) = 2

\* a block mined at a positive difficulty for a non-empty batch was added
C5_Witness ==
    /\ coord.pc = "added"
    /\ par_in.difficulty >= 1
    /\ par_in.transactions # <<>>
    /\ ret = Some(TRUE)
    /\ chain[Len(chain)] = coord.found_block[1]

\* C6: when every worker has died without a report and the queue is empty,
\* the call to mine_block_parallel still returns.
C6_AwaitEndsWithoutReports ==
    (/\ Awaiting
     /\ result_queue = <<>>
     /\ \A id \in WorkerIds : workers[id].pc = "crashed")
        ~> Returned

\* workers from which the coordinator has dequeued a report
Reported == { coord.received[i].worker_id : i \in 1..Len(coord.received) }

C7_DrainBounded ==
    /\ coord.drain_i <= par_in.num_workers - 1
    /\ Returned =>
          \A id \in WorkerIds : id \notin Reported => coord.worker_stats[id] = 0

C7_WinnerKept ==
    coord.found_block # Nothing => coord'.found_block = coord.found_block

\* C7: the drain loop makes at most num_workers - 1 receives and then the
\* call returns, whether or not the other workers report; a worker whose
\* report was not dequeued has count 0 in worker_stats; the block chosen in
\* the await loop is the block returned.
C7_DrainTerminates ==
    /\ []C7_DrainBounded
    /\ [][C7_WinnerKept]_vars
    /\ (coord.pc = "drain") ~> Returned

\* the call returned after a drain receive timed out on a worker that died
\* without a report
C7_Witness ==
    /\ Returned
    /\ par_in.num_workers >= 2
    /\ coord.drain_i >= 1
    /\ \E id \in WorkerIds :
          /\ workers[id].pc = "crashed"
          /\ id \notin Reported
          /\ coord.worker_stats[id] = 0

\* C11: when mine_block_parallel has its block, the report that carried it is
\* counted in the statistics with (nonce - worker_id) / N + 1 attempts, and
\* total_nonces_tested is at least the winning nonce divided by N.
C11_TotalAtLeastWinnerShare ==
    ~Awaiting =>
        LET winner == FirstFoundReport
            N == par_in.num_workers
        IN  /\ winner.nonce = coord.found_block[1].nonce
            /\ (winner.nonce - winner.worker_id) % N = 0
            /\ winner.nonces_tested = (winner.nonce - winner.worker_id) \div N + 1
            /\ coord.worker_stats[winner.worker_id] = winner.nonces_tested
            /\ coord.total_nonces_tested >= winner.nonces_tested
            /\ coord.total_nonces_tested * N >= winner.nonce

\* the call returned a block whose nonce the winner reached on a later attempt
\* than its first, with another worker's report counted as well
C11_Witness ==
    /\ Returned
    /\ par_in.num_workers >= 2
    /\ coord.found_block[1].nonce >= par_in.num_workers
    /\ Len(coord.received) >= 2

\* the sum of worker_stats over the worker ids 0..k
RECURSIVE SumStats(_)
SumStats(k) == IF k < 0 THEN 0 ELSE coord.worker_stats[k] + SumStats(k - 1)

\* the positions in the order of arrival of the reports dequeued from worker id
ReportsOf(id) == { i \in 1..Len(coord.received) : coord.received[i].worker_id = id }

\* C12: total_nonces_tested is the sum of worker_stats; worker_stats has one
\* entry for each worker id 0..N-1; the entry of a worker is 0 when no report
\* of it was dequeued and otherwise the attempt count of its one report, which
\* is the number of blocks that worker hashed.
C12_BreakdownSumsToTotal ==
    /\ DOMAIN coord.worker_stats = 0..(par_in.num_workers - 1)
    /\ coord.total_nonces_tested = SumStats(par_in.num_workers - 1)
    /\ \A id \in WorkerIds :
          /\ Cardinality(ReportsOf(id)) <= 1
          /\ IF ReportsOf(id) = {}
             THEN coord.worker_stats[id] = 0
             ELSE \A i \in ReportsOf(id) :
                     /\ coord.worker_stats[id] = coord.received[i].nonces_tested
                     /\ coord.worker_stats[id] = workers[id].nonces_tested

\* the call returned with the report of every one of two or more workers
\* counted
C12_Witness ==
    /\ Returned
    /\ par_in.num_workers >= 2
    /\ \A id \in WorkerIds : ReportsOf(id) # {} /\ coord.worker_stats[id] >= 1

\* C13: every block of a chain object, also of one built by
\* Blockchain.from_dict, has a hash field equal to the digest of its other
\* fields: a persisted chain with a block for which they differ is not loaded.
C13_LoadedBlocksMatchDigest ==
    \A i \in 1..Len(chain) : DigestMatches(chain[i])

\* the conditions of validate_block that a candidate violates on chain c
ViolatedConditions(c, block, difficulty) ==
    {k \in {"linkage"} : Len(c) > 0 /\ ~LinkedToTip(c, block)}
        \cup {k \in {"hash_mismatch"} : ~DigestMatches(block)}
        \cup {k \in {"difficulty"} : ~MeetsDifficulty(block.hash, difficulty)}
        \cup {k \in {"empty"} : ~HasTransactions(block)}

\* the violated conditions that the value returned to the caller names: a
\* bare boolean names none
ReturnedErrorKinds ==
    IF ret \in {Nothing, Some(TRUE), Some(FALSE)} THEN {} ELSE {ret[1]}

\* C14: when validate_block or add_block rejects a candidate, the value it
\* returns names a condition that the candidate violates.
C14_RejectionNamesCondition ==
    (cpc = "returned" /\ ret # Some(TRUE)) =>
        /\ ReturnedErrorKinds # {}
        /\ ReturnedErrorKinds \subseteq
               ViolatedConditions(call.before, call.block, call.difficulty)

\* the nonces of the blocks worker id has hashed, in the order it hashed them
TestedNonces(id) == [k \in 1..Len(workers[id].tested) |-> workers[id].tested[k].nonce]

\* C15: worker i of N hashes the nonces i, i + N, i + 2N, ... in this order,
\* so each is congruent to i modulo N and no nonce is hashed by two workers;
\* every block any worker hashes has the call's previous_hash, transactions
\* and timestamp.
C15_DisjointResidueClasses ==
    /\ \A id \in WorkerIds :
          /\ Len(workers[id].tested) = workers[id].nonces_tested
          /\ \A k \in 1..Len(workers[id].tested) :
                LET block == workers[id].tested[k]
                IN  /\ block.nonce = id + (k - 1) * par_in.num_workers
                    /\ block.nonce % par_in.num_workers = id
                    /\ block.previous_hash = par_in.previous_hash
                    /\ block.transactions = par_in.transactions
                    /\ block.timestamp = par_in.timestamp
    /\ \A i \in WorkerIds, j \in WorkerIds :
          i # j =>
              \A k \in 1..Len(workers[i].tested), l \in 1..Len(workers[j].tested) :
                  workers[i].tested[k].nonce # workers[j].tested[l].nonce

\* two workers have each hashed two nonces or more
C15_Witness ==
    /\ par_in.num_workers >= 2
    /\ \A id \in WorkerIds : Len(workers[id].tested) >= 2

\* C16 as stated: once found_flag is 1, a worker hashes at most
\* check_interval - 1 further blocks.
C16_LatencyBelowInterval ==
    \A id \in WorkerIds : workers[id].after_flag <= CheckInterval - 1

\* C16, amended: once found_flag is 1, a worker hashes at most check_interval
\* further blocks, and after the check_interval-th it has left its loop.
C16_LatencyWithinInterval ==
    \A id \in WorkerIds :
        /\ workers[id].after_flag <= CheckInterval
        /\ workers[id].after_flag = CheckInterval => workers[id].pc # "loop"

\* a worker has stopped at a check point after check_interval blocks hashed
\* with the flag set
C16_Witness ==
    \E id \in WorkerIds :
        /\ workers[id].after_flag = CheckInterval
        /\ workers[id].result # Nothing
        /\ ~workers[id].result[1].found

\* a worker has just hashed a block that meets the difficulty
JustFound(id) ==
    /\ workers[id].pc = "loop"
    /\ workers'[id].pc = "put"
    /\ workers'[id].result[1].found
    /\ MeetsDifficulty(workers'[id].result[1].hash, par_in.difficulty)

C17_FlagStep ==
    /\ found_flag = 1 => found_flag' = 1
    /\ found_flag' # found_flag =>
          /\ found_flag' = 1
          /\ \E id \in WorkerIds : JustFound(id)

\* C17: found_flag starts at 0, is only ever written to 1, stays 1 once it is
\* 1, and changes only in a step in which a worker has found a nonce whose
\* hash meets the difficulty.
C17_FlagMonotonic ==
    /\ found_flag = 0
    /\ [](found_flag \in {0, 1})
    /\ [][C17_FlagStep]_vars

\* the flag is set, one worker has found a nonce and another has stopped on
\* the flag
C17_Witness ==
    /\ found_flag = 1
    /\ \E id \in WorkerIds :
          workers[id].result # Nothing /\ workers[id].result[1].found
    /\ \E id \in WorkerIds :
          workers[id].result # Nothing /\ ~workers[id].result[1].found

\* the reports of worker id that are in the queue or were dequeued
SentReports(id) ==
    { <<"queued", i>> : i \in { j \in 1..Len(result_queue) :
                                    result_queue[j].worker_id = id } }
        \cup { <<"received", i>> : i \in ReportsOf(id) }

\* worker id has built a found:false report
StoppedOnFlag(id) ==
    /\ id \in WorkerIds
    /\ workers[id].result # Nothing
    /\ ~workers[id].result[1].found

\* worker id is about to enqueue its found:false report
StoppedAtPut(id) == StoppedOnFlag(id) /\ workers[id].pc = "put"

\* the next step of a worker that is about to enqueue its found:false report
\* enqueues exactly that report and ends the worker, unless the process dies
C18_PutEnds ==
    \A id \in WorkerIds :
        (StoppedAtPut(id) /\ workers'[id] # workers[id]) =>
            \/ workers'[id].pc = "crashed"
            \/ /\ workers'[id].pc = "done"
               /\ result_queue' = Append(result_queue, workers[id].result[1])

C18_OneReport ==
    \A id \in WorkerIds :
        /\ Cardinality(SentReports(id)) <= 1
        /\ workers[id].pc \in {"loop", "put"} => SentReports(id) = {}
        /\ workers[id].pc = "done" =>
              /\ Cardinality(SentReports(id)) = 1
              /\ \A i \in 1..Len(result_queue) :
                    result_queue[i].worker_id = id =>
                        result_queue[i] = workers[id].result[1]
              /\ \A i \in ReportsOf(id) : coord.received[i] = workers[id].result[1]
        /\ StoppedOnFlag(id) =>
              /\ found_flag = 1
              /\ workers[id].nonces_tested % CheckInterval = 0
              /\ workers[id].result[1].nonces_tested = workers[id].nonces_tested
              /\ workers[id].result[1].nonces_tested = Len(workers[id].tested)
              /\ ~MeetsDifficulty(workers[id].tested[Len(workers[id].tested)].hash,
                                  par_in.difficulty)

C18_NoFurtherTest ==
    \A id \in WorkerIds :
        workers[id].pc # "loop" =>
            /\ workers'[id].tested = workers[id].tested
            /\ workers'[id].result = workers[id].result
            /\ workers'[id].pc # "loop"

\* C18: a worker that reads found_flag as 1 at a check point, its attempt
\* having failed, builds a found:false report with its attempt count, hashes
\* no further block, and its next step enqueues that report once and ends it
\* (unless its process dies first); no worker ever has more than one report
\* in the queue and the coordinator's hands together.
C18_StoppedWorkerReportsOnce ==
    /\ []C18_OneReport
    /\ [][C18_NoFurtherTest]_vars
    /\ [][C18_PutEnds]_vars

\* a worker that stopped on the flag has ended and its report was dequeued
C18_Witness ==
    \E id \in WorkerIds :
        /\ StoppedOnFlag(id)
        /\ workers[id].pc = "done"
        /\ \E i \in ReportsOf(id) : ~coord.received[i].found

\* the statistics after a report was counted
CountedAs(result) ==
    /\ coord'.worker_stats =
          [coord.worker_stats EXCEPT ![result.worker_id] = @ + result.nonces_tested]
    /\ coord'.total_nonces_tested = coord.total_nonces_tested + result.nonces_tested

C19_DrainStep ==
    (coord.pc = "drain" /\ result_queue # <<>> /\ coord' # coord) =>
        /\ CountedAs(Head(result_queue))
        /\ coord'.found_block = coord.found_block
        /\ result_queue' = Tail(result_queue)

\* C19: a report dequeued in the drain loop, found:true or found:false alike,
\* adds its attempt count to its sender's entry and to the total and leaves
\* the block chosen in the await loop as it is.
C19_LateWinnerIsStatsOnly == [][C19_DrainStep]_vars

\* the drain loop has dequeued a found:true report and counted it
C19_Witness ==
    /\ coord.pc \in {"drain", "returned"}
    /\ coord.drain_i >= 1
    /\ Len(coord.received) >= 2
    /\ LET last == coord.received[Len(coord.received)]
       IN  /\ last.found
           /\ coord.found_block # Some(reconstruct(last.block_data))
           /\ coord.worker_stats[last.worker_id] = last.nonces_tested

\* every report that exists: those in the queue and those dequeued
AllReports ==
    { result_queue[i] : i \in 1..Len(result_queue) }
        \cup { coord.received[i] : i \in 1..Len(coord.received) }

\* some worker has hashed a block that meets the difficulty
SomeWorkerFound ==
    \E id \in WorkerIds :
        /\ workers[id].result # Nothing
        /\ workers[id].result[1].found
        /\ MeetsDifficulty(workers[id].result[1].hash, par_in.difficulty)

\* C20: whenever a report is in the queue or was dequeued, found_flag is 1;
\* a found:false report exists only when some worker has found a nonce that
\* meets the difficulty.
C20_ReportImpliesFlagSet ==
    /\ AllReports # {} => found_flag = 1
    /\ (\E r \in AllReports : ~r.found) => SomeWorkerFound
    /\ \A id \in WorkerIds : workers[id].result # Nothing => found_flag = 1

\* a found:false report was dequeued while the finder's report was still on
\* its way or already there
C20_Witness ==
    /\ found_flag = 1
    /\ \E i \in 1..Len(coord.received) : ~coord.received[i].found
    /\ SomeWorkerFound

\* the block of the call with nonce n has a hash that meets the difficulty
ParNonceSatisfies(n) ==
    MeetsDifficulty(
        Block(par_in.previous_hash, par_in.transactions, par_in.timestamp, n).hash,
        par_in.difficulty)

\* C22: the nonce of the block of mine_block_parallel is congruent modulo N to
\* the id of the worker whose report was chosen, and it is the smallest nonce
\* of that residue class whose hash meets the difficulty.
C22_WinnerSmallestInClass ==
    ~Awaiting =>
        LET nonce == coord.found_block[1].nonce
            id == FirstFoundReport.worker_id
        IN  /\ nonce % par_in.num_workers = id
            /\ ParNonceSatisfies(nonce)
            /\ \A m \in 0..(nonce - 1) :
                  m % par_in.num_workers = id => ~ParNonceSatisfies(m)

\* the call returned a block of worker 1 or higher whose class has a smaller
\* nonce that fails, while a smaller nonce of another class satisfies
C22_Witness ==
    /\ Returned
    /\ FirstFoundReport.worker_id >= 1
    /\ coord.found_block[1].nonce >= par_in.num_workers
    /\ \E m \in 0..(coord.found_block[1].nonce - 1) : ParNonceSatisfies(m)

\* a nonce that the model's workers reach has a hash that meets the difficulty
SatisfiableInReach == \E n \in 0..NonceCap : ParNonceSatisfies(n)

\* the call has returned a block that meets the difficulty and every worker
\* has returned after its one report
CallComplete ==
    /\ Returned
    /\ coord.found_block # Nothing
    /\ MeetsDifficulty(coord.found_block[1].hash, par_in.difficulty)
    /\ \A id \in WorkerIds :
          workers[id].pc = "done" /\ Cardinality(SentReports(id)) = 1

C21_AwaitStep ==
    (Awaiting /\ result_queue # <<>> /\ Len(coord'.received) > Len(coord.received)
        /\ ~Head(result_queue).found) =>
        /\ CountedAs(Head(result_queue))
        /\ coord'.pc = "await"
        /\ coord'.found_block = Nothing

\* C21: when some nonce meets the difficulty, no worker process dies and the
\* pool and the coordinator keep running, the call eventually returns a block
\* that meets the difficulty and every worker eventually returns after its one
\* report; a found:false report dequeued in the await loop is counted and the
\* await loop goes on.
C21_CallCompletes ==
    /\ [][C21_AwaitStep]_vars
    /\ SatisfiableInReach ~> CallComplete

\* the call is complete and the first report dequeued was a found:false one
C21_Witness ==
    /\ CallComplete
    /\ par_in.num_workers >= 2
    /\ ~coord.received[1].found

\* every report in the queue or dequeued is the one report of a worker of the
\* current call, put by that worker
ReportsAreOwn ==
    \A id \in WorkerIds :
        /\ Cardinality(SentReports(id)) <= 1
        /\ SentReports(id) # {} =>
              /\ workers[id].pc = "done"
              /\ \A r \in AllReports :
                    r.worker_id = id => r = workers[id].result[1]
        /\ coord.worker_stats[id] =
              IF ReportsOf(id) = {} THEN 0 ELSE workers[id].nonces_tested

\* the block chosen is the one a worker of the current call found
WinnerIsOwn ==
    coord.found_block # Nothing =>
        /\ coord.found_block = Some(reconstruct(FirstFoundReport.block_data))
        /\ FirstFoundReport = workers[FirstFoundReport.worker_id].result[1]
        /\ coord.found_block[1].previous_hash = par_in.previous_hash
        /\ coord.found_block[1].transactions = par_in.transactions
        /\ coord.found_block[1].timestamp = par_in.timestamp

C23_CurrentCallOnly ==
    /\ ReportsAreOwn
    /\ WinnerIsOwn
    /\ coord.total_nonces_tested = SumStats(par_in.num_workers - 1)
    /\ found_flag = 1 => SomeWorkerFound

C23_EarlierStep ==
    (earlier # Nothing /\ earlier' # earlier) =>
        UNCHANGED <<found_flag, result_queue, workers, coord>>

\* C23: in the second of two calls on one pool, the flag, the queue, the
\* block chosen and the counters hold only what the workers of that call
\* wrote: a step of a worker of the first call changes none of them, every
\* report the coordinator sees is the one report of a worker of the call, and
\* the flag is set only when one of its workers has found a nonce.
C23_CallsIsolated ==
    /\ []C23_CurrentCallOnly
    /\ [][C23_EarlierStep]_vars

\* the second call has returned its block after a worker of the first call
\* put a found:true report when the second call had begun
C23_Witness ==
    /\ earlier # Nothing
    /\ earlier[1].late >= 1
    /\ earlier[1].result_queue # <<>>
    /\ earlier[1].result_queue[Len(earlier[1].result_queue)].found
    /\ Returned
    /\ coord.found_block # Nothing

====
